---- MODULE Spec2Model ----
(***************************************************************************)
(* The front end of the esperopp language: Tokenizer (token.hpp), the AST  *)
(* data model (ast.hpp) and the recursive-descent Parser (parser.hpp),     *)
(* driven as main.cpp drives them: text -> token sequence -> Program.      *)
(*                                                                         *)
(* A character is a one-character string; the character '\0' is written    *)
(* NUL and the vertical tab VT.  A text (std::string) is a sequence of     *)
(* characters.  C++ positions are 0-based, TLA+ sequences 1-based: the     *)
(* character at position p is m_source[p + 1].                             *)
(***************************************************************************)
EXTENDS Integers, Sequences, FiniteSets, TLC

VARIABLES
  tokenizer,   \* the Tokenizer object: m_source, m_position, m_line, m_column
  tokens,      \* the vector tokenize() builds and main() hands to the Parser
  starts,      \* history: starts[i] is the position of the first character of tokens[i]
  iterations,  \* history: number of iterations of tokenize()'s main loop so far
  parser,      \* the Parser object: m_tokens, m_position
  trace,       \* history: the values of m_position during the last parseStatement()
  program,     \* ProgramNode::statements
  error,       \* the std::runtime_error caught by main(), or NoError
  pc,          \* where main() is: "tokenize", "parse", "done", "failed"
  written,     \* input: the forms of the top-level statements the text was written with
  accepted     \* input: TRUE when the text was derived from the grammar

vars == <<tokenizer, tokens, starts, iterations, parser, trace, program, error, pc,
          written, accepted>>

----------------------------------------------------------------------------
(* Characters                                                              *)

NUL == "NUL"
VT == "VT"

Digit == {"0", "1", "2", "3", "4", "5", "6", "7", "8", "9"}

Lower == {"a", "b", "c", "d", "e", "f", "g", "h", "i", "j", "k", "l", "m",
          "n", "o", "p", "q", "r", "s", "t", "u", "v", "w", "x", "y", "z"}

Upper == {"A", "B", "C", "D", "E", "F", "G", "H", "I", "J", "K", "L", "M",
          "N", "O", "P", "Q", "R", "S", "T", "U", "V", "W", "X", "Y", "Z"}

isdigit(c) == c \in Digit
isalpha(c) == c \in Lower \cup Upper
isalnum(c) == isalpha(c) \/ isdigit(c)
isspace(c) == c \in {" ", "\t", "\n", "\r", "\f", VT}

----------------------------------------------------------------------------
(* token.hpp                                                               *)

Id2TokenType ==
     <<"f","u","n","k","c","i","o">> :> "Funkcio"
  @@ <<"k","l","a","s","o">> :> "Klaso"
  @@ <<"s","e">> :> "Se"
  @@ <<"a","l","i","e">> :> "Alie"
  @@ <<"d","u","m">> :> "Dum"
  @@ <<"r","e","v","e","n","i">> :> "Reveni"
  @@ <<"t","i","u">> :> "Tiu"
  @@ <<"v","e","r","o">> :> "Vero"
  @@ <<"m","a","l","v","e","r","o">> :> "Malvero"
  @@ <<"e","n","t","j","e","r","a">> :> "Entjera"
  @@ <<"r","e","a","l","a">> :> "Reala"
  @@ <<"t","e","k","s","t","a">> :> "Teksta"
  @@ <<"b","u","l","e","a">> :> "Bulea"
  @@ <<"f","u","n","k","c","i","a">> :> "Funkcia"

Token(t, v, l, c) == [type |-> t, value |-> v, line |-> l, column |-> c]

Tokenizer(src) == [m_source |-> src, m_position |-> 0, m_line |-> 1, m_column |-> 0]

current(t) ==
  IF t.m_position < Len(t.m_source) THEN t.m_source[t.m_position + 1] ELSE NUL

peek(t) ==
  IF t.m_position + 1 < Len(t.m_source) THEN t.m_source[t.m_position + 2] ELSE NUL

advance(t) ==
  IF current(t) = "\n"
    THEN [t EXCEPT !.m_line = @ + 1, !.m_column = 0, !.m_position = @ + 1]
    ELSE [t EXCEPT !.m_column = @ + 1, !.m_position = @ + 1]

RECURSIVE skipWhitespaceLoop(_)
skipWhitespaceLoop(t) ==
  IF isspace(current(t)) THEN skipWhitespaceLoop(advance(t)) ELSE t

skipWhitespace(t) ==
  [isWhitespace |-> isspace(current(t)), t |-> skipWhitespaceLoop(t)]

RECURSIVE skipCommentLoop(_)
skipCommentLoop(t) ==
  IF ~(current(t) = "\n" \/ current(t) = NUL) THEN skipCommentLoop(advance(t)) ELSE t

(* skipComment that takes "//" for two divisions.                          *)
skipCommentNone(t) == [isComment |-> FALSE, t |-> t]

skipComment(t) ==
  IF current(t) = "/" /\ peek(t) = "/"
    THEN [isComment |-> ~(current(t) = "\n" \/ current(t) = NUL), t |-> skipCommentLoop(t)]
    ELSE [isComment |-> FALSE, t |-> t]

(* readNumberLoop without the break at a second ".".                       *)
RECURSIVE readNumberLoopEveryDot(_, _, _)
readNumberLoopEveryDot(t, number, isFloat) ==
  IF isdigit(current(t)) \/ current(t) = "."
    THEN readNumberLoopEveryDot(advance(t), Append(number, current(t)), TRUE)
    ELSE [t |-> t, number |-> number]

RECURSIVE readNumberLoop(_, _, _)
readNumberLoop(t, number, isFloat) ==
  IF isdigit(current(t)) \/ current(t) = "."
    THEN IF current(t) = "." /\ isFloat
           THEN [t |-> t, number |-> number]
           ELSE readNumberLoop(advance(t), Append(number, current(t)),
                               isFloat \/ current(t) = ".")
    ELSE [t |-> t, number |-> number]

readNumber(t) ==
  LET startColumn == t.m_column
      r == readNumberLoop(t, <<>>, FALSE)
  IN  [token |-> Token("Number", r.number, r.t.m_line, startColumn), t |-> r.t]

escape(c) ==
  CASE c = "n" -> "\n"
    [] c = "t" -> "\t"
    [] OTHER -> c

RECURSIVE readStringLoop(_, _)
readStringLoop(t, str) ==
  IF ~(current(t) = "\"" \/ current(t) = NUL)
    THEN IF current(t) = "\\"
           THEN LET t1 == advance(t)
                IN  readStringLoop(advance(t1), Append(str, escape(current(t1))))
           ELSE readStringLoop(advance(t), Append(str, current(t)))
    ELSE [t |-> t, str |-> str]

readString(t) ==
  LET startColumn == t.m_column
      r == readStringLoop(advance(t), <<>>)
      t2 == IF current(r.t) = "\"" THEN advance(r.t) ELSE r.t
  IN  [token |-> Token("String", r.str, t2.m_line, startColumn), t |-> t2]

RECURSIVE readIdentifierLoop(_, _)
readIdentifierLoop(t, id) ==
  IF isalnum(current(t)) \/ current(t) = "_"
    THEN readIdentifierLoop(advance(t), Append(id, current(t)))
    ELSE [t |-> t, id |-> id]

readIdentifier(t) ==
  LET startColumn == t.m_column
      r == readIdentifierLoop(t, <<>>)
      type == IF r.id \in DOMAIN Id2TokenType THEN Id2TokenType[r.id] ELSE "Identifier"
  IN  [token |-> Token(type, r.id, r.t.m_line, startColumn), t |-> r.t]

(* The switch of tokenize(): the token of a character that starts neither  *)
(* a number, a string nor an identifier.  two is TRUE when a second        *)
(* character is consumed.                                                  *)
Punctuation(c, next) ==
  LET one(type) == [type |-> type, value |-> <<c>>, two |-> FALSE]
      two(type) == [type |-> type, value |-> <<c, "=">>, two |-> TRUE]
  IN  CASE c = "+" -> one("Plus")
        [] c = "-" -> one("Minus")
        [] c = "*" -> one("Multiply")
        [] c = "/" -> one("Divide")
        [] c = "(" -> one("LParen")
        [] c = ")" -> one("RParen")
        [] c = "{" -> one("LBrace")
        [] c = "}" -> one("RBrace")
        [] c = ";" -> one("Semicolon")
        [] c = "," -> one("Comma")
        [] c = "@" -> one("At")
        [] c = "." -> one("Dot")
        [] c = "=" -> IF next = "=" THEN two("Equal") ELSE one("Assign")
        [] c = "!" -> IF next = "=" THEN two("NotEqual") ELSE one("Unknown")
        [] c = "<" -> IF next = "=" THEN two("LessEqual") ELSE one("Less")
        [] c = ">" -> IF next = "=" THEN two("GreaterEqual") ELSE one("Greater")
        [] OTHER -> one("Unknown")

(* readPunctuation without the advance() that ends the branch.             *)
readPunctuationNoAdvance(t) ==
  LET startColumn == t.m_column
      p == Punctuation(current(t), peek(t))
      t1 == IF p.two THEN advance(t) ELSE t
  IN  [token |-> Token(p.type, p.value, t1.m_line, startColumn), t |-> t1]

(* readPunctuation without the advance() over the "=" of a two-character   *)
(* operator.                                                               *)
readPunctuationOneAdvance(t) ==
  LET startColumn == t.m_column
      p == Punctuation(current(t), peek(t))
  IN  [token |-> Token(p.type, p.value, t.m_line, startColumn), t |-> advance(t)]

readPunctuation(t) ==
  LET startColumn == t.m_column
      p == Punctuation(current(t), peek(t))
      t1 == IF p.two THEN advance(t) ELSE t
  IN  [token |-> Token(p.type, p.value, t1.m_line, startColumn), t |-> advance(t1)]

(* One iteration of the while loop of tokenize(), entered with              *)
(* current() # '\0': the tokenizer after it and the tokens it pushed.       *)
tokenizeIteration(t) ==
  LET ws == skipWhitespace(t)
      cm == skipComment(t)
      rd == IF isdigit(current(t)) THEN readNumber(t)
            ELSE IF current(t) = "\"" THEN readString(t)
            ELSE IF isalpha(current(t)) \/ current(t) = "_" THEN readIdentifier(t)
            ELSE readPunctuation(t)
  IN  IF ws.isWhitespace THEN [t |-> ws.t, pushed |-> <<>>]
      ELSE IF cm.isComment THEN [t |-> cm.t, pushed |-> <<>>]
      ELSE [t |-> rd.t, pushed |-> <<rd.token>>]

(* EndOfFileToken with the line and the column exchanged.                  *)
EndOfFileTokenSwapped(t) == Token("EndOfFile", <<>>, t.m_column, t.m_line)

EndOfFileToken(t) == Token("EndOfFile", <<>>, t.m_line, t.m_column)

(* The while loop of tokenize() and the push of the end-of-file token,     *)
(* with the history of the first positions and of the iteration count.     *)
RECURSIVE tokenizeLoop(_, _, _, _)
tokenizeLoop(t, toks, sts, n) ==
  IF current(t) # NUL
    THEN LET it == tokenizeIteration(t)
         IN  tokenizeLoop(it.t, toks \o it.pushed,
                          IF it.pushed = <<>> THEN sts ELSE Append(sts, t.m_position), n + 1)
    ELSE [t |-> t, tokens |-> Append(toks, EndOfFileToken(t)),
          starts |-> Append(sts, t.m_position), iterations |-> n]

tokenize(t) == tokenizeLoop(t, <<>>, <<>>, 0)

----------------------------------------------------------------------------
(* ast.hpp                                                                 *)

nullptr == [kind |-> "nullptr"]

Type(k) == [kind |-> k, returnType |-> nullptr, paramType |-> nullptr, className |-> <<>>]

NumberLiteral(v, isInt) ==
  [kind |-> "NumberLiteral", type |-> nullptr, value |-> v, isInteger |-> isInt]

StringLiteral(v) == [kind |-> "StringLiteral", type |-> nullptr, value |-> v]

BoolLiteral(v) == [kind |-> "BoolLiteral", type |-> nullptr, value |-> v]

VarRefNode(n) == [kind |-> "VarRef", type |-> nullptr, name |-> n]

BinaryOpNode(o, l, r) ==
  [kind |-> "BinaryOp", type |-> nullptr, op |-> o, left |-> l, right |-> r]

CallNode(f, a) == [kind |-> "Call", type |-> nullptr, function |-> f, argument |-> a]

AtFunctionNode(param, pType, rType, b) ==
  [kind |-> "AtFunction", type |-> nullptr, paramName |-> param, paramType |-> pType,
   returnType |-> rType, body |-> b]

MemberAccessNode(obj, m) ==
  [kind |-> "MemberAccess", type |-> nullptr, object |-> obj, member |-> m]

VarDeclNode(n, t, init) == [kind |-> "VarDecl", name |-> n, type |-> t, initializer |-> init]

AssignNode(n, v) == [kind |-> "Assign", name |-> n, value |-> v]

FunctionDeclNode(n, param, pType, rType, b) ==
  [kind |-> "FunctionDecl", name |-> n, paramName |-> param, paramType |-> pType,
   returnType |-> rType, body |-> b]

ReturnNode(v) == [kind |-> "Return", value |-> v]

IfNode(cond, thenB, elseB) ==
  [kind |-> "If", condition |-> cond, thenBody |-> thenB, elseBody |-> elseB]

WhileNode(cond, b) == [kind |-> "While", condition |-> cond, body |-> b]

----------------------------------------------------------------------------
(* parser.hpp.  A parser p carries m_tokens, m_position and the history    *)
(* trace of the values of m_position, one more at each advance().  A member function       *)
(* yields Return(value, p) or Throw(what, p): the value returned or the    *)
(* exception thrown, and the parser as the call left it.                   *)

NoError == [message |-> "", at |-> <<>>]

(* std::runtime_error(message): at is empty.                               *)
(* std::runtime_error(message + " at line " + to_string(line)): at is      *)
(* <<line>>.                                                               *)
runtime_error(message, at) == [message |-> message, at |-> at]

Return(v, p) == [ok |-> TRUE, value |-> v, p |-> p]
Throw(e, p) == [ok |-> FALSE, what |-> e, p |-> p]

Parser(toks) == [m_tokens |-> toks, m_position |-> 0]

Parser_current(p) == p.m_tokens[p.m_position + 1]

(* Parser_advance stepping from the last token back to the first.          *)
Parser_advanceWrap(p) ==
  LET pos == (p.m_position + 1) % Len(p.m_tokens)
  IN  [p EXCEPT !.m_position = pos, !.trace = Append(@, pos)]

Parser_advance(p) ==
  LET pos == IF p.m_position < Len(p.m_tokens) - 1 THEN p.m_position + 1 ELSE p.m_position
  IN  [p EXCEPT !.m_position = pos, !.trace = Append(@, pos)]

match(p, type) ==
  IF Parser_current(p).type = type
    THEN [matched |-> TRUE, p |-> Parser_advance(p)]
    ELSE [matched |-> FALSE, p |-> p]

expect(p, type, message) ==
  LET m == match(p, type)
  IN  IF m.matched
        THEN Return(nullptr, m.p)
        ELSE Throw(runtime_error(message, <<Parser_current(m.p).line>>), m.p)

parseType(p) ==
  LET t == Parser_current(p).type
      p1 == Parser_advance(p)
  IN  CASE t = "Entjera" -> Return(Type("Entjera"), p1)
        [] t = "Reala" -> Return(Type("Reala"), p1)
        [] t = "Teksta" -> Return(Type("Teksta"), p1)
        [] t = "Bulea" -> Return(Type("Bulea"), p1)
        [] t = "Funkcia" -> Return(Type("Funkcia"), p1)
        [] OTHER -> Throw(runtime_error("Expected type", <<>>), p1)

contains(str, c) == \E i \in 1..Len(str) : str[i] = c

MultiplicativeOp(type) == IF type = "Multiply" THEN "Mul" ELSE "Div"

AdditiveOp(type) == IF type = "Plus" THEN "Add" ELSE "Sub"

ComparisonOp(type) ==
  CASE type = "Less" -> "LT"
    [] type = "Greater" -> "GT"
    [] type = "LessEqual" -> "LE"
    [] type = "GreaterEqual" -> "GE"
    [] type = "Equal" -> "Eq"
    [] type = "NotEqual" -> "NEq"

NumberNode(tok) == NumberLiteral(tok.value, contains(tok.value, "."))

(* Sequencing of two calls: F runs on the result of r unless r threw, and *)
(* then the exception propagates.                                         *)
Then(r, F(_)) == IF r.ok THEN F(r) ELSE r

RECURSIVE parseStatement(_), parseBlock(_, _), parseExpression(_), parseComparison(_),
          parseComparisonLoop(_, _), parseAdditive(_), parseAdditiveLoop(_, _),
          parseMultiplicative(_), parseMultiplicativeLoop(_, _), parsePostfix(_),
          parsePostfixLoop(_, _), parsePrimary(_), parseExpressionStatement(_)

(* parseBlock leaving the closing brace unconsumed.                        *)
RECURSIVE parseBlockNoConsume(_, _)
parseBlockNoConsume(p, body) ==
  IF Parser_current(p).type = "RBrace" THEN Return(body, p)
  ELSE Then(parseStatement(p), LAMBDA s : parseBlockNoConsume(s.p, Append(body, s.value)))

(* parseBlock that also ends, without a failure, at the end-of-file token. *)
RECURSIVE parseBlockUntilEndOfFile(_, _)
parseBlockUntilEndOfFile(p, body) ==
  LET m == match(p, "RBrace")
  IN  IF m.matched \/ Parser_current(p).type = "EndOfFile" THEN Return(body, m.p)
      ELSE Then(parseStatement(m.p),
                LAMBDA s : parseBlockUntilEndOfFile(s.p, Append(body, s.value)))

(* while (!match(TokenType::RBrace)) body.push_back(parseStatement());     *)
parseBlock(p, body) ==
  LET m == match(p, "RBrace")
  IN  IF m.matched THEN Return(body, m.p)
      ELSE Then(parseStatement(m.p), LAMBDA s : parseBlock(s.p, Append(body, s.value)))

parsePrimary(p) ==
  LET type == Parser_current(p).type
      at == match(p, "At")
      lp == match(at.p, "LParen")
  IN  IF type = "Number" THEN Return(NumberNode(Parser_current(p)), Parser_advance(p))
      ELSE IF type = "String"
        THEN Return(StringLiteral(Parser_current(p).value), Parser_advance(p))
      ELSE IF type = "Vero" THEN Return(BoolLiteral(TRUE), Parser_advance(p))
      ELSE IF type = "Malvero" THEN Return(BoolLiteral(FALSE), Parser_advance(p))
      ELSE IF at.matched
        THEN Then(expect(at.p, "LParen", "Expected '(' after '@'"), LAMBDA a1 :
             Then(parseType(a1.p), LAMBDA a2 :
             Then(expect(a2.p, "Identifier", "Expected parameter name"), LAMBDA a3 :
             Then(expect(a3.p, "RParen", "Expected ')'"), LAMBDA a4 :
             Then(parseType(a4.p), LAMBDA a5 :
             Then(expect(a5.p, "LBrace", "Expected '{'"), LAMBDA a6 :
             Then(parseBlock(a6.p, <<>>), LAMBDA a7 :
             Return(AtFunctionNode(Parser_current(a2.p).value, a2.value, a5.value, a7.value),
                    a7.p))))))))
      ELSE IF lp.matched
        THEN Then(parseExpression(lp.p), LAMBDA e1 :
             Then(expect(e1.p, "RParen", "Expected ')'"), LAMBDA e2 :
             Return(e1.value, e2.p)))
      ELSE IF type = "Identifier" \/ type = "Tiu"
        THEN Return(VarRefNode(Parser_current(p).value), Parser_advance(p))
      ELSE Throw(runtime_error("Unexpected token in expression", <<>>), p)

parsePostfixLoop(p, expr) ==
  LET lp == match(p, "LParen")
      dot == match(lp.p, "Dot")
  IN  IF lp.matched
        THEN Then(parseExpression(lp.p), LAMBDA c1 :
             Then(expect(c1.p, "RParen", "Expected ')'"), LAMBDA c2 :
             parsePostfixLoop(c2.p, CallNode(expr, c1.value))))
      ELSE IF dot.matched
        THEN Then(expect(dot.p, "Identifier", "Expected member name"), LAMBDA d1 :
             parsePostfixLoop(d1.p, MemberAccessNode(expr, Parser_current(dot.p).value)))
      ELSE Return(expr, p)

parsePostfix(p) ==
  Then(parsePrimary(p), LAMBDA r : parsePostfixLoop(r.p, r.value))

(* parseMultiplicativeLoop taking parseAdditive() as its right operand.    *)
RECURSIVE parseMultiplicativeLoopWrongLevel(_, _)
parseMultiplicativeLoopWrongLevel(p, left) ==
  LET type == Parser_current(p).type
  IN  IF type = "Multiply" \/ type = "Divide"
        THEN Then(parseAdditive(Parser_advance(p)), LAMBDA r :
             parseMultiplicativeLoopWrongLevel(
               r.p, BinaryOpNode(MultiplicativeOp(type), left, r.value)))
        ELSE Return(left, p)

parseMultiplicativeLoop(p, left) ==
  LET type == Parser_current(p).type
  IN  IF type = "Multiply" \/ type = "Divide"
        THEN Then(parsePostfix(Parser_advance(p)), LAMBDA r :
             parseMultiplicativeLoop(r.p, BinaryOpNode(MultiplicativeOp(type), left, r.value)))
        ELSE Return(left, p)

parseMultiplicative(p) ==
  Then(parsePostfix(p), LAMBDA r : parseMultiplicativeLoop(r.p, r.value))

(* parseAdditiveLoop recursing into the rest of the chain as its right     *)
(* operand.                                                                *)
parseAdditiveLoopRight(p, left) ==
  LET type == Parser_current(p).type
  IN  IF type = "Plus" \/ type = "Minus"
        THEN Then(parseAdditive(Parser_advance(p)), LAMBDA r :
             Return(BinaryOpNode(AdditiveOp(type), left, r.value), r.p))
        ELSE Return(left, p)

parseAdditiveLoop(p, left) ==
  LET type == Parser_current(p).type
  IN  IF type = "Plus" \/ type = "Minus"
        THEN Then(parseMultiplicative(Parser_advance(p)), LAMBDA r :
             parseAdditiveLoop(r.p, BinaryOpNode(AdditiveOp(type), left, r.value)))
        ELSE Return(left, p)

parseAdditive(p) ==
  Then(parseMultiplicative(p), LAMBDA r : parseAdditiveLoop(r.p, r.value))

parseComparisonLoop(p, left) ==
  LET type == Parser_current(p).type
  IN  IF type \in {"Less", "Greater", "LessEqual", "GreaterEqual", "Equal", "NotEqual"}
        THEN Then(parseAdditive(Parser_advance(p)), LAMBDA r :
             parseComparisonLoop(r.p, BinaryOpNode(ComparisonOp(type), left, r.value)))
        ELSE Return(left, p)

parseComparison(p) ==
  Then(parseAdditive(p), LAMBDA r : parseComparisonLoop(r.p, r.value))

parseExpression(p) == parseComparison(p)

(* The assignment or expression statement once the expression x1 is        *)
(* parsed, with any expression accepted as the target.                     *)
AssignOrExpressionAnyTarget(x1) ==
  LET x_as == match(x1.p, "Assign")
      name == IF x1.value.kind = "VarRef" THEN x1.value.name ELSE <<>>
  IN  IF x_as.matched
        THEN Then(parseExpression(x_as.p), LAMBDA x2 :
             Then(expect(x2.p, "Semicolon", "Expected ';'"), LAMBDA x3 :
             Return(AssignNode(name, x2.value), x3.p)))
        ELSE Then(expect(x1.p, "Semicolon", "Expected ';'"), LAMBDA x4 :
             Return(x1.value, x4.p))

(* The end of parseStatement() once the expression x1 is parsed: an        *)
(* assignment to it or the expression as a statement.                      *)
AssignOrExpression(x1) ==
  LET x_as == match(x1.p, "Assign")
  IN  IF x1.value.kind = "VarRef" /\ x_as.matched
        THEN Then(parseExpression(x_as.p), LAMBDA x2 :
             Then(expect(x2.p, "Semicolon", "Expected ';'"), LAMBDA x3 :
             Return(AssignNode(x1.value.name, x2.value), x3.p)))
        ELSE Then(expect(x1.p, "Semicolon", "Expected ';'"), LAMBDA x4 :
             Return(x1.value, x4.p))

parseExpressionStatement(p) ==
  Then(parseExpression(p), LAMBDA x1 : AssignOrExpression(x1))

(* The else part of an if statement, after the then body s5.               *)
parseElse(condition, s5) ==
  LET al == match(s5.p, "Alie")
  IN  IF al.matched
        THEN Then(expect(al.p, "LBrace", "Expected '{'"), LAMBDA s6 :
             Then(parseBlock(s6.p, <<>>), LAMBDA s7 :
             Return(IfNode(condition, s5.value, s7.value), s7.p)))
        ELSE Return(IfNode(condition, s5.value, <<>>), al.p)

parseStatement(p) ==
  LET type == Parser_current(p).type
      fn == match(p, "Funkcio")
      rv == match(fn.p, "Reveni")
      se == match(rv.p, "Se")
      dm == match(se.p, "Dum")
  IN  IF type \in {"Entjera", "Reala", "Teksta", "Bulea", "Funkcia"}
        THEN Then(parseType(p), LAMBDA v1 :
             Then(expect(v1.p, "Identifier", "Expected variable name"), LAMBDA v2 :
             Then(IF match(v2.p, "Assign").matched
                    THEN parseExpression(match(v2.p, "Assign").p)
                    ELSE Return(nullptr, v2.p), LAMBDA v3 :
             Then(expect(v3.p, "Semicolon", "Expected ';'"), LAMBDA v4 :
             Return(VarDeclNode(Parser_current(v1.p).value, v1.value, v3.value), v4.p)))))
      ELSE IF fn.matched
        THEN Then(expect(fn.p, "Identifier", "Expected function name"), LAMBDA f1 :
             Then(expect(f1.p, "LParen", "Expected '('"), LAMBDA f2 :
             Then(parseType(f2.p), LAMBDA f3 :
             Then(expect(f3.p, "Identifier", "Expected parameter name"), LAMBDA f4 :
             Then(expect(f4.p, "RParen", "Expected ')'"), LAMBDA f5 :
             Then(parseType(f5.p), LAMBDA f6 :
             Then(expect(f6.p, "LBrace", "Expected '{'"), LAMBDA f7 :
             Then(parseBlock(f7.p, <<>>), LAMBDA f8 :
             Return(FunctionDeclNode(Parser_current(fn.p).value, Parser_current(f3.p).value,
                                     f3.value, f6.value, f8.value), f8.p)))))))))
      ELSE IF rv.matched
        THEN Then(parseExpression(rv.p), LAMBDA r1 :
             Then(expect(r1.p, "Semicolon", "Expected ';'"), LAMBDA r2 :
             Return(ReturnNode(r1.value), r2.p)))
      ELSE IF se.matched
        THEN Then(expect(se.p, "LParen", "Expected '('"), LAMBDA s1 :
             Then(parseExpression(s1.p), LAMBDA s2 :
             Then(expect(s2.p, "RParen", "Expected ')'"), LAMBDA s3 :
             Then(expect(s3.p, "LBrace", "Expected '{'"), LAMBDA s4 :
             Then(parseBlock(s4.p, <<>>), LAMBDA s5 :
             parseElse(s2.value, s5))))))
      ELSE IF dm.matched
        THEN Then(expect(dm.p, "LParen", "Expected '('"), LAMBDA d1 :
             Then(parseExpression(d1.p), LAMBDA d2 :
             Then(expect(d2.p, "RParen", "Expected ')'"), LAMBDA d3 :
             Then(expect(d3.p, "LBrace", "Expected '{"), LAMBDA d4 :
             Then(parseBlock(d4.p, <<>>), LAMBDA d5 :
             Return(WhileNode(d2.value, d5.value), d5.p))))))
      ELSE parseExpressionStatement(dm.p)

----------------------------------------------------------------------------
(* Inputs                                                                  *)

MaxLen == 4
MaxStmts == 2
MaxOps == 3
MaxToks == 3

(* Texts of at most MaxLen characters.                                     *)
Alphabet == {"1", ".", "n", " ", "\n", "/", "\"", "\\", "=", "<", ";", NUL}

Texts == UNION {[1..n -> Alphabet] : n \in 0..MaxLen}

(* Texts of comparison and assignment characters.                          *)
OperatorAlphabet == {"=", "!", "<", ">", " ", "1"}

OperatorTexts == UNION {[1..n -> OperatorAlphabet] : n \in 0..MaxLen}

(* The texts the documentation of the tokenizer quotes, and a run of every *)
(* kind of whitespace.                                                     *)
ExampleTexts == {
  <<"/", "/", " ", "c", "\n", "e", "n", "t", "j", "e", "r", "a", " ", "x", ";">>,
  <<"1", ".", "2", ".", "3">>,
  <<" ", "\t", "\n", "\r", "\f", VT>>,
  <<"a", " ", "!", "=", " ", "b", " ", "!">>
}

Sources == Texts \cup OperatorTexts \cup ExampleTexts

RECURSIVE Join(_, _)
Join(words, sep) ==
  IF words = <<>> THEN <<>>
  ELSE IF Len(words) = 1 THEN words[1]
  ELSE words[1] \o sep \o Join(Tail(words), sep)

(* Statements, each a sequence of lexemes.  grammatical is TRUE for the    *)
(* statements derived from the grammar, and form is then the statement     *)
(* form (for an expression statement, the expression form) the grammar     *)
(* derives it as.                                                          *)
Statements == {
  [lexemes |-> <<<<"e","n","t","j","e","r","a">>, <<"x">>, <<";">>>>,
   grammatical |-> TRUE, form |-> "VarDecl"],
  [lexemes |-> <<<<"r","e","a","l","a">>, <<"y">>, <<"=">>, <<"3",".","1","4">>, <<";">>>>,
   grammatical |-> TRUE, form |-> "VarDecl"],
  [lexemes |-> <<<<"f","u","n","k","c","i","a">>, <<"g">>, <<"=">>, <<"@">>, <<"(">>, <<"e","n","t","j","e","r","a">>, <<"x">>, <<")">>, <<"e","n","t","j","e","r","a">>, <<"{">>, <<"r","e","v","e","n","i">>, <<"x">>, <<";">>, <<"}">>, <<";">>>>,
   grammatical |-> TRUE, form |-> "VarDecl"],
  [lexemes |-> <<<<"x">>, <<"=">>, <<"4","2">>, <<";">>>>,
   grammatical |-> TRUE, form |-> "Assign"],
  [lexemes |-> <<<<"f">>, <<"(">>, <<"x">>, <<")">>, <<";">>>>,
   grammatical |-> TRUE, form |-> "Call"],
  [lexemes |-> <<<<"a">>, <<".">>, <<"b">>, <<";">>>>,
   grammatical |-> TRUE, form |-> "MemberAccess"],
  [lexemes |-> <<<<"f","u","n","k","c","i","o">>, <<"f">>, <<"(">>, <<"e","n","t","j","e","r","a">>, <<"x">>, <<")">>, <<"e","n","t","j","e","r","a">>, <<"{">>, <<"y">>, <<"=">>, <<"1">>, <<";">>, <<"r","e","v","e","n","i">>, <<"x">>, <<";">>, <<"}">>>>,
   grammatical |-> TRUE, form |-> "FunctionDecl"],
  [lexemes |-> <<<<"r","e","v","e","n","i">>, <<"x">>, <<";">>>>,
   grammatical |-> TRUE, form |-> "Return"],
  [lexemes |-> <<<<"s","e">>, <<"(">>, <<"x">>, <<"<">>, <<"1">>, <<")">>, <<"{">>, <<"x">>, <<"=">>, <<"1">>, <<";">>, <<"}">>, <<"a","l","i","e">>, <<"{">>, <<"f">>, <<"(">>, <<"x">>, <<")">>, <<";">>, <<"z">>, <<";">>, <<"}">>>>,
   grammatical |-> TRUE, form |-> "If"],
  [lexemes |-> <<<<"s","e">>, <<"(">>, <<"v","e","r","o">>, <<")">>, <<"{">>, <<"}">>>>,
   grammatical |-> TRUE, form |-> "If"],
  [lexemes |-> <<<<"d","u","m">>, <<"(">>, <<"x">>, <<")">>, <<"{">>, <<"x">>, <<"=">>, <<"x">>, <<"-">>, <<"1">>, <<";">>, <<"e","n","t","j","e","r","a">>, <<"y">>, <<";">>, <<"}">>>>,
   grammatical |-> TRUE, form |-> "While"],
  [lexemes |-> <<<<"1">>, <<"+">>, <<"2">>, <<"*">>, <<"3">>, <<";">>>>,
   grammatical |-> TRUE, form |-> "BinaryOp"],
  [lexemes |-> <<<<"a">>, <<"<">>, <<"b">>, <<"+">>, <<"c">>, <<";">>>>,
   grammatical |-> TRUE, form |-> "BinaryOp"],
  [lexemes |-> <<<<"1">>, <<"-">>, <<"2">>, <<"-">>, <<"3">>, <<";">>>>,
   grammatical |-> TRUE, form |-> "BinaryOp"],
  [lexemes |-> <<<<"(">>, <<"x">>, <<")">>, <<"=">>, <<"1">>, <<";">>>>,
   grammatical |-> FALSE, form |-> "none"],
  [lexemes |-> <<<<"e","n","t","j","e","r","a">>, <<"x">>>>,
   grammatical |-> FALSE, form |-> "none"],
  [lexemes |-> <<<<"f">>, <<"(">>, <<"x">>, <<")">>, <<"=">>, <<"1">>, <<";">>>>,
   grammatical |-> FALSE, form |-> "none"],
  [lexemes |-> <<<<"a">>, <<".">>, <<"b">>, <<"=">>, <<"1">>, <<";">>>>,
   grammatical |-> FALSE, form |-> "none"],
  [lexemes |-> <<<<"x">>, <<"=">>, <<";">>>>,
   grammatical |-> FALSE, form |-> "none"],
  [lexemes |-> <<<<"f","u","n","k","c","i","o">>, <<"f">>, <<"(">>, <<"x">>, <<")">>, <<"e","n","t","j","e","r","a">>, <<"{">>, <<"}">>>>,
   grammatical |-> FALSE, form |-> "none"],
  [lexemes |-> <<<<"s","e">>, <<"(">>, <<"x">>, <<")">>, <<"{">>, <<"y">>, <<";">>>>,
   grammatical |-> FALSE, form |-> "none"]
}

(* A program of at most MaxStmts statements, one per line.                 *)
StatementPrograms ==
  { [text |-> Join([i \in 1..Len(ss) |-> Join(ss[i].lexemes, <<" ">>)], <<"\n">>),
     written |-> [i \in 1..Len(ss) |-> ss[i].form],
     accepted |-> \A i \in 1..Len(ss) : ss[i].grammatical] :
    ss \in UNION {[1..n -> Statements] : n \in 1..MaxStmts} }

(* One expression statement: a chain of at most MaxOps binary operators    *)
(* without parentheses, "1 op 2 op 3 ... ;".                                *)
Operators == {<<"*">>, <<"/">>, <<"+">>, <<"-">>, <<"=", "=">>, <<"!", "=">>,
              <<"<">>, <<">">>, <<"<", "=">>, <<">", "=">>}

Operand(i) == <<<<"1">>, <<"2">>, <<"3">>, <<"4">>, <<"5">>, <<"6">>, <<"7">>, <<"8">>, <<"9">>>>[i]

ChainPrograms ==
  { [text |-> Join([i \in 1..(2 * Len(ops) + 2) |->
                      IF i = 2 * Len(ops) + 2 THEN <<";">>
                      ELSE IF i % 2 = 1 THEN Operand((i + 1) \div 2)
                      ELSE ops[i \div 2]], <<" ">>),
     written |-> <<"BinaryOp">>,
     accepted |-> TRUE] :
    ops \in UNION {[1..n -> Operators] : n \in 1..MaxOps} }

(* At most MaxToks lexemes in any order, one per line.                     *)
Lexemes == {<<"x">>, <<"1">>, <<";">>, <<"=">>, <<"(">>, <<")">>, <<".">>, <<"+">>, <<"@">>,
            <<"e","n","t","j","e","r","a">>, <<"r","e","v","e","n","i">>}

LexemePrograms ==
  { [text |-> Join(ls, <<"\n">>), written |-> <<>>, accepted |-> FALSE] :
    ls \in UNION {[1..n -> Lexemes] : n \in 0..MaxToks} }

Programs == StatementPrograms \cup ChainPrograms \cup LexemePrograms

----------------------------------------------------------------------------
(* main.cpp                                                                *)

(* Tokenizer tokenizer(content), about to call tokenize().                 *)
Init ==
  \E src \in Sources :
    /\ tokenizer = Tokenizer(src)
    /\ tokens = <<>>
    /\ starts = <<>>
    /\ iterations = 0
    /\ parser = Parser(<<>>)
    /\ trace = <<>>
    /\ program = <<>>
    /\ error = NoError
    /\ pc = "tokenize"
    /\ written = <<>>
    /\ accepted = FALSE

(* Parser parser(tokens) on the tokenization of a program, about to call   *)
(* parse().                                                                *)
InitParse ==
  \E src \in Programs :
    LET r == tokenize(Tokenizer(src.text))
    IN  /\ tokenizer = r.t
        /\ tokens = r.tokens
        /\ starts = r.starts
        /\ iterations = r.iterations
        /\ parser = Parser(r.tokens)
        /\ trace = <<>>
        /\ program = <<>>
        /\ error = NoError
        /\ pc = "parse"
        /\ written = src.written
        /\ accepted = src.accepted

(* One iteration of the while loop of tokenize().                          *)
TokenizeIteration ==
  /\ pc = "tokenize"
  /\ current(tokenizer) # NUL
  /\ LET it == tokenizeIteration(tokenizer)
     IN  /\ tokenizer' = it.t
         /\ tokens' = tokens \o it.pushed
         /\ starts' = IF it.pushed = <<>> THEN starts ELSE Append(starts, tokenizer.m_position)
  /\ iterations' = iterations + 1
  /\ UNCHANGED <<parser, trace, program, error, pc, written, accepted>>

(* The end of tokenize(): the end-of-file token; main() constructs the     *)
(* Parser on the tokens.                                                   *)
TokenizeReturn ==
  /\ pc = "tokenize"
  /\ current(tokenizer) = NUL
  /\ tokens' = Append(tokens, EndOfFileToken(tokenizer))
  /\ starts' = Append(starts, tokenizer.m_position)
  /\ parser' = Parser(tokens')
  /\ pc' = "parse"
  /\ UNCHANGED <<tokenizer, iterations, trace, program, error, written, accepted>>

(* One iteration of the while loop of parse(): parseStatement() returns a  *)
(* statement, or throws and main() catches.                                *)
ParseStatement ==
  /\ pc = "parse"
  /\ Parser_current(parser).type # "EndOfFile"
  /\ LET r == parseStatement([m_tokens |-> parser.m_tokens,
                              m_position |-> parser.m_position,
                              trace |-> <<parser.m_position>>])
     IN  /\ parser' = [m_tokens |-> r.p.m_tokens, m_position |-> r.p.m_position]
         /\ trace' = r.p.trace
         /\ program' = IF r.ok THEN Append(program, r.value) ELSE program
         /\ error' = IF r.ok THEN error ELSE r.what
         /\ pc' = IF r.ok THEN pc ELSE "failed"
  /\ UNCHANGED <<tokenizer, tokens, starts, iterations, written, accepted>>

(* The end of parse(): the Program is returned.                            *)
ParseReturn ==
  /\ pc = "parse"
  /\ Parser_current(parser).type = "EndOfFile"
  /\ pc' = "done"
  /\ UNCHANGED <<tokenizer, tokens, starts, iterations, parser, trace, program, error,
                 written, accepted>>

Next == TokenizeIteration \/ TokenizeReturn \/ ParseStatement \/ ParseReturn

Spec == Init /\ [][Next]_vars

NextParse == ParseStatement \/ ParseReturn

ParseSpec == InitParse /\ [][NextParse]_vars

----------------------------------------------------------------------------
(* Properties of the tokenizer                                             *)

Last(seq) == seq[Len(seq)]

(* The 1-based line and the 0-based column of the character at position    *)
(* pos of the text src.                                                    *)
Newlines(src, pos) == {i \in 1..pos : src[i] = "\n"}

LineOf(src, pos) == 1 + Cardinality(Newlines(src, pos))

ColumnOf(src, pos) ==
  IF Newlines(src, pos) = {} THEN pos
  ELSE pos - (CHOOSE i \in Newlines(src, pos) : \A j \in Newlines(src, pos) : j <= i)

(* C1: tokenize() returns a sequence whose last element is an EndOfFile    *)
(* token, no earlier element is an EndOfFile token, and the EndOfFile      *)
(* token carries the line and column counters of the tokenizer at the      *)
(* moment current() found the input exhausted; no EndOfFile token is       *)
(* pushed before that.                                                     *)
C1_EndOfFileLast ==
  /\ pc = "tokenize" => \A i \in 1..Len(tokens) : tokens[i].type # "EndOfFile"
  /\ pc # "tokenize" =>
       /\ tokens # <<>>
       /\ Last(tokens).type = "EndOfFile"
       /\ \A i \in 1..(Len(tokens) - 1) : tokens[i].type # "EndOfFile"
       /\ current(tokenizer) = NUL
       /\ Last(tokens).line = tokenizer.m_line
       /\ Last(tokens).column = tokenizer.m_column

(* tokenize() has returned several tokens of a text of several lines that  *)
(* does not end with a newline.                                            *)
C1_Witness ==
  /\ pc # "tokenize"
  /\ Len(tokens) >= 3
  /\ Last(tokens).type = "EndOfFile"
  /\ Last(tokens).line >= 2
  /\ Last(tokens).column >= 1

(* C2: every iteration of the main loop of tokenize() moves m_position     *)
(* forward by at least one character, m_position never passes the end of   *)
(* the text by more than one, and the number of iterations never exceeds   *)
(* the length of the text: the loop ends after at most that many           *)
(* iterations.                                                             *)
C2_TokenizeTerminates ==
  /\ [][pc = "tokenize" /\ pc' = "tokenize" =>
          tokenizer'.m_position >= tokenizer.m_position + 1]_vars
  /\ [](tokenizer.m_position <= Len(tokenizer.m_source) + 1)
  /\ [](iterations <= Len(tokenizer.m_source))

(* tokenize() has returned after as many iterations as the text has        *)
(* characters, a skip of whitespace among them.                            *)
C2_Witness ==
  /\ pc # "tokenize"
  /\ iterations >= 3
  /\ iterations = Len(tokenizer.m_source)
  /\ Len(tokens) < iterations + 1

(* C4: every token but the end-of-file token carries the 1-based line and  *)
(* the 0-based column of its first character in the text.                  *)
C4_TokenPosition ==
  \A i \in 1..Len(tokens) :
    tokens[i].type # "EndOfFile" =>
      /\ tokens[i].line = LineOf(tokenizer.m_source, starts[i])
      /\ tokens[i].column = ColumnOf(tokenizer.m_source, starts[i])

----------------------------------------------------------------------------
(* Properties of the parser                                                *)

RECURSIVE Concat(_)
Concat(seqs) == IF seqs = <<>> THEN <<>> ELSE Head(seqs) \o Concat(Tail(seqs))

(* The nodes a node owns directly.                                         *)
Children(n) ==
  CASE n.kind = "BinaryOp" -> <<n.left, n.right>>
    [] n.kind = "Call" -> <<n.function, n.argument>>
    [] n.kind = "AtFunction" -> n.body
    [] n.kind = "MemberAccess" -> <<n.object>>
    [] n.kind = "VarDecl" -> IF n.initializer.kind = "nullptr" THEN <<>> ELSE <<n.initializer>>
    [] n.kind = "Assign" -> <<n.value>>
    [] n.kind = "FunctionDecl" -> n.body
    [] n.kind = "Return" -> <<n.value>>
    [] n.kind = "If" -> <<n.condition>> \o n.thenBody \o n.elseBody
    [] n.kind = "While" -> <<n.condition>> \o n.body
    [] OTHER -> <<>>

(* All the nodes of the tree of n, and of the Program.                     *)
RECURSIVE Nodes(_)
Nodes(n) == <<n>> \o Concat([i \in 1..Len(Children(n)) |-> Nodes(Children(n)[i])])

ProgramNodes == Concat([i \in 1..Len(program) |-> Nodes(program[i])])

TokenTypes == [i \in 1..Len(parser.m_tokens) |-> parser.m_tokens[i].type]

TokenTexts == [i \in 1..Len(parser.m_tokens) |-> parser.m_tokens[i].value]

(* The token whose kind made the parser throw: parseType() has stepped     *)
(* over it, expect() and parsePrimary() have not.                          *)
OffendingPosition ==
  IF error.message = "Expected type" THEN trace[Len(trace) - 1] ELSE parser.m_position

(* C3: a failure of parse() carries a message and the line of the token    *)
(* that failed to match.                                                   *)
C3_FailureCarriesLine ==
  pc = "failed" =>
    /\ error.message # ""
    /\ error.at = <<parser.m_tokens[OffendingPosition + 1].line>>

(* C5: a number literal node is flagged integer exactly when the text of   *)
(* its token has no ".".                                                   *)
C5_IntegerFlag ==
  \A i \in 1..Len(ProgramNodes) :
    ProgramNodes[i].kind = "NumberLiteral" =>
      (ProgramNodes[i].isInteger <=> ~contains(ProgramNodes[i].value, "."))

Level(op) ==
  CASE op \in {"Mul", "Div"} -> 3
    [] op \in {"Add", "Sub"} -> 2
    [] op \in {"Eq", "NEq", "LT", "GT", "LE", "GE"} -> 1

OperatorTokens ==
  [Multiply |-> "Mul", Divide |-> "Div", Plus |-> "Add", Minus |-> "Sub", Equal |-> "Eq",
   NotEqual |-> "NEq", Less |-> "LT", Greater |-> "GT", LessEqual |-> "LE",
   GreaterEqual |-> "GE"]

(* An expression tree reduced to its operators and the texts of its        *)
(* operands.                                                               *)
Bin(op, l, r) == [op |-> op, left |-> l, right |-> r]
Leaf(text) == [text |-> text]

RECURSIVE Shape(_)
Shape(n) ==
  CASE n.kind = "BinaryOp" -> Bin(n.op, Shape(n.left), Shape(n.right))
    [] n.kind = "NumberLiteral" -> Leaf(n.value)
    [] n.kind = "VarRef" -> Leaf(n.name)
    [] OTHER -> [kind |-> n.kind]

NoParentheses == \A i \in 1..Len(TokenTypes) : TokenTypes[i] # "LParen"

(* The tokens are "a op b op ... ;" with k operators.                      *)
Chain(k) ==
  /\ Len(TokenTypes) = 2 * k + 3
  /\ \A i \in 1..(2 * k + 1) :
       IF i % 2 = 1 THEN TokenTypes[i] \in {"Number", "Identifier"}
       ELSE TokenTypes[i] \in DOMAIN OperatorTokens
  /\ TokenTypes[2 * k + 2] = "Semicolon"

ChainOp(i) == OperatorTokens[TokenTypes[2 * i]]
ChainOperand(i) == Leaf(TokenTexts[2 * i - 1])

(* C7: in an expression without parentheses an operand of a binary         *)
(* operation is never a binary operation that binds less tightly; of two   *)
(* operators of different levels in "a op1 b op2 c" the tighter one is     *)
(* the operand of the other; "1 + 2 * 3" is Add(1, Mul(2, 3)) and          *)
(* "a < b + c" is LT(a, Add(b, c)).                                        *)
C7_Precedence ==
  /\ NoParentheses =>
       \A i \in 1..Len(ProgramNodes) :
         LET n == ProgramNodes[i]
         IN  n.kind = "BinaryOp" =>
               /\ n.left.kind = "BinaryOp" => Level(n.left.op) >= Level(n.op)
               /\ n.right.kind = "BinaryOp" => Level(n.right.op) >= Level(n.op)
  /\ Chain(2) /\ Level(ChainOp(1)) # Level(ChainOp(2)) =>
       /\ pc # "failed"
       /\ program # <<>> =>
            Shape(program[1]) =
              IF Level(ChainOp(1)) < Level(ChainOp(2))
                THEN Bin(ChainOp(1), ChainOperand(1),
                         Bin(ChainOp(2), ChainOperand(2), ChainOperand(3)))
                ELSE Bin(ChainOp(2),
                         Bin(ChainOp(1), ChainOperand(1), ChainOperand(2)), ChainOperand(3))
  /\ TokenTexts = <<<<"1">>, <<"+">>, <<"2">>, <<"*">>, <<"3">>, <<";">>, <<>>>> /\ pc = "done" =>
       Shape(program[1]) =
         Bin("Add", Leaf(<<"1">>), Bin("Mul", Leaf(<<"2">>), Leaf(<<"3">>)))
  /\ TokenTexts = <<<<"a">>, <<"<">>, <<"b">>, <<"+">>, <<"c">>, <<";">>, <<>>>> /\ pc = "done" =>
       Shape(program[1]) =
         Bin("LT", Leaf(<<"a">>), Bin("Add", Leaf(<<"b">>), Leaf(<<"c">>)))

(* "2 * 3 + 4 ;" or the like has been parsed: a tighter operator before a  *)
(* looser one, the tighter one the left operand.                           *)
C7_Witness ==
  /\ pc = "done"
  /\ Chain(2)
  /\ Level(ChainOp(1)) = 3
  /\ Level(ChainOp(2)) = 2
  /\ program[1].kind = "BinaryOp"
  /\ program[1].left.kind = "BinaryOp"

(* C8: in an expression without parentheses the right operand of a binary  *)
(* operation is never a binary operation of the same level; a chain of two *)
(* or three operators of one level nests to the left; "1 - 2 - 3" is       *)
(* Sub(Sub(1, 2), 3).                                                      *)
C8_LeftAssociative ==
  /\ NoParentheses =>
       \A i \in 1..Len(ProgramNodes) :
         LET n == ProgramNodes[i]
         IN  n.kind = "BinaryOp" /\ n.right.kind = "BinaryOp" =>
               Level(n.right.op) # Level(n.op)
  /\ Chain(2) /\ Level(ChainOp(1)) = Level(ChainOp(2)) =>
       /\ pc # "failed"
       /\ program # <<>> =>
            Shape(program[1]) =
              Bin(ChainOp(2), Bin(ChainOp(1), ChainOperand(1), ChainOperand(2)),
                  ChainOperand(3))
  /\ Chain(3) /\ Level(ChainOp(1)) = Level(ChainOp(2)) /\ Level(ChainOp(2)) = Level(ChainOp(3)) =>
       /\ pc # "failed"
       /\ program # <<>> =>
            Shape(program[1]) =
              Bin(ChainOp(3),
                  Bin(ChainOp(2), Bin(ChainOp(1), ChainOperand(1), ChainOperand(2)),
                      ChainOperand(3)),
                  ChainOperand(4))
  /\ TokenTexts = <<<<"1">>, <<"-">>, <<"2">>, <<"-">>, <<"3">>, <<";">>, <<>>>> /\ pc = "done" =>
       Shape(program[1]) =
         Bin("Sub", Bin("Sub", Leaf(<<"1">>), Leaf(<<"2">>)), Leaf(<<"3">>))

(* "1 - 2 - 3 ;" has been parsed.                                          *)
C8_Witness ==
  /\ pc = "done"
  /\ TokenTexts = <<<<"1">>, <<"-">>, <<"2">>, <<"-">>, <<"3">>, <<";">>, <<>>>>
  /\ program[1].kind = "BinaryOp"
  /\ program[1].op = "Sub"

(* The kind of the i-th token (1-based), the end-of-file kind past the end. *)
TypeAt(i) == IF i <= Len(TokenTypes) THEN TokenTypes[i] ELSE "EndOfFile"

(* The tokens i..j are a name, in zero or more pairs of parentheses; its   *)
(* text.                                                                   *)
RECURSIVE BareName(_, _)
BareName(i, j) ==
  IF i >= j THEN i = j /\ TypeAt(i) \in {"Identifier", "Tiu"}
  ELSE TypeAt(i) = "LParen" /\ TypeAt(j) = "RParen" /\ BareName(i + 1, j - 1)

BareNameText(i, j) == TokenTexts[(i + j) \div 2]

(* The statement at the cursor starts with "name ( operand ) =" or with    *)
(* "name . name =".                                                        *)
CallOrMemberThenAssign ==
  LET i == parser.m_position + 1
  IN  /\ TypeAt(i) \in {"Identifier", "Tiu"}
      /\ \/ /\ TypeAt(i + 1) = "LParen"
            /\ TypeAt(i + 2) \in {"Identifier", "Tiu", "Number"}
            /\ TypeAt(i + 3) = "RParen"
            /\ TypeAt(i + 4) = "Assign"
         \/ /\ TypeAt(i + 1) = "Dot"
            /\ TypeAt(i + 2) = "Identifier"
            /\ TypeAt(i + 3) = "Assign"

NonDecreasing(seq) == \A i \in 1..(Len(seq) - 1) : seq[i] <= seq[i + 1]

(* C10: during parse() m_position never decreases, neither from one        *)
(* advance() to the next within a parseStatement() nor from one            *)
(* parseStatement() to the next, and m_tokens does not change.             *)
C10_CursorMonotonic ==
  [][pc = "parse" =>
       /\ parser'.m_tokens = parser.m_tokens
       /\ parser'.m_position >= parser.m_position
       /\ Parser_current(parser).type # "EndOfFile" =>
            /\ trace'[1] = parser.m_position
            /\ Last(trace') = parser'.m_position
            /\ NonDecreasing(trace')]_vars

(* parse() has failed in parseType() at the end-of-file token, after       *)
(* several advances.                                                       *)
C10_Witness ==
  /\ pc = "failed"
  /\ error.message = "Expected type"
  /\ Parser_current(parser).type = "EndOfFile"
  /\ Len(trace) >= 3

----------------------------------------------------------------------------
(* Whitespace and comments                                                 *)

(* The kinds and texts of a token sequence, in order, without positions.   *)
KindsTexts(toks) == [i \in 1..Len(toks) |-> <<toks[i].type, toks[i].value>>]

(* The text of t with every run tokenize() skips from m_position on (a     *)
(* whitespace run or a comment) replaced by sep; the characters tokenize() *)
(* never reaches are kept.                                                 *)
RECURSIVE Replaced(_, _)
Replaced(t, sep) ==
  LET it == tokenizeIteration(t)
      end == IF it.t.m_position <= Len(t.m_source) THEN it.t.m_position ELSE Len(t.m_source)
  IN  IF current(t) = NUL THEN SubSeq(t.m_source, t.m_position + 1, Len(t.m_source))
      ELSE IF it.pushed = <<>> THEN sep \o Replaced(it.t, sep)
      ELSE SubSeq(t.m_source, t.m_position + 1, end) \o Replaced(it.t, sep)

Removed(src) == Replaced(Tokenizer(src), <<>>)

Squeezed(src) == Replaced(Tokenizer(src), <<" ">>)

WhitespaceOnly(src) == \A i \in 1..Len(src) : isspace(src[i])

CommentExample ==
  <<"/", "/", " ", "c", "\n", "e", "n", "t", "j", "e", "r", "a", " ", "x", ";">>

(* C11 as stated: removing the whitespace runs and the comments from the   *)
(* text changes neither the kinds, the texts nor the order of the tokens;  *)
(* no token starts at a whitespace character, whitespace-only input yields *)
(* the end-of-input token alone, and "// c\nentjera x;" yields Entjera,    *)
(* Identifier "x", Semicolon, end-of-input.                                *)
C11_RemovalKeepsTokens ==
  pc # "tokenize" =>
    /\ KindsTexts(tokenize(Tokenizer(Removed(tokenizer.m_source))).tokens) = KindsTexts(tokens)
    /\ \A i \in 1..(Len(tokens) - 1) : ~isspace(tokenizer.m_source[starts[i] + 1])
    /\ WhitespaceOnly(tokenizer.m_source) => Len(tokens) = 1
    /\ tokenizer.m_source = CommentExample =>
         KindsTexts(tokens) = << <<"Entjera", <<"e", "n", "t", "j", "e", "r", "a">> >>,
                                 <<"Identifier", <<"x">> >>, <<"Semicolon", <<";">> >>,
                                 <<"EndOfFile", <<>> >> >>

(* C11 amended: whitespace runs and comments never produce tokens:         *)
(* replacing each run tokenize() skips by a single space changes neither   *)
(* the kinds, the texts nor the order of the tokens; no token starts at a  *)
(* whitespace character, whitespace-only input yields the end-of-input     *)
(* token alone, and "// c\nentjera x;" yields Entjera, Identifier "x",     *)
(* Semicolon, end-of-input.                                                *)
C11_SkippedRunsSeparate ==
  pc # "tokenize" =>
    /\ KindsTexts(tokenize(Tokenizer(Squeezed(tokenizer.m_source))).tokens) = KindsTexts(tokens)
    /\ \A i \in 1..(Len(tokens) - 1) : ~isspace(tokenizer.m_source[starts[i] + 1])
    /\ WhitespaceOnly(tokenizer.m_source) => Len(tokens) = 1
    /\ tokenizer.m_source = CommentExample =>
         KindsTexts(tokens) = << <<"Entjera", <<"e", "n", "t", "j", "e", "r", "a">> >>,
                                 <<"Identifier", <<"x">> >>, <<"Semicolon", <<";">> >>,
                                 <<"EndOfFile", <<>> >> >>

(* tokenize() has returned the four tokens of "// c\nentjera x;", a text   *)
(* whose comment and whitespace runs the squeeze shortens.                 *)
C11_Witness ==
  /\ pc # "tokenize"
  /\ tokenizer.m_source = CommentExample
  /\ Len(tokens) = 4
  /\ Len(Squeezed(tokenizer.m_source)) < Len(tokenizer.m_source)

----------------------------------------------------------------------------
(* Types                                                                   *)

(* The Types a node holds.                                                 *)
TypesOf(n) ==
  CASE n.kind = "VarDecl" -> {n.type}
    [] n.kind = "FunctionDecl" -> {n.paramType, n.returnType}
    [] n.kind = "AtFunction" -> {n.paramType, n.returnType}
    [] OTHER -> {}

(* C12: every Function-kind Type of the tree parse() builds, whether the   *)
(* type of a variable declaration, of a parameter or of a return value,    *)
(* holds a parameter Type and a return Type.                               *)
C12_FunctionTypeComplete ==
  \A i \in 1..Len(ProgramNodes) :
    \A ty \in TypesOf(ProgramNodes[i]) :
      ty.kind = "Funkcia" => ty.paramType # nullptr /\ ty.returnType # nullptr

----------------------------------------------------------------------------
(* Unknown characters and operators                                        *)

(* c, followed by next, starts a number, a string, an identifier, a        *)
(* whitespace run, a punctuation or an operator.                           *)
Recognized(c, next) ==
  \/ isdigit(c) \/ isalpha(c) \/ isspace(c)
  \/ c \in {"\"", "_", "+", "-", "*", "/", "(", ")", "{", "}", ";", ",", "@", ".",
            "=", "<", ">"}
  \/ c = "!" /\ next = "="

(* The character at position pos (0-based) of the text, whatever it is.    *)
CharAt(pos) == tokenizer.m_source[pos + 1]

(* C13: a character at which no other lexing rule applies becomes exactly  *)
(* one Unknown token with that character as its text, one character is     *)
(* consumed, and tokenize() returns only when every character of the text  *)
(* has been consumed.                                                      *)
C13_UnknownNeverStops ==
  /\ [][pc = "tokenize" /\ tokenizer.m_position < Len(tokenizer.m_source)
          /\ ~Recognized(CharAt(tokenizer.m_position), peek(tokenizer)) =>
            /\ pc' = "tokenize"
            /\ Len(tokens') = Len(tokens) + 1
            /\ Last(tokens').type = "Unknown"
            /\ Last(tokens').value = <<CharAt(tokenizer.m_position)>>
            /\ tokenizer'.m_position = tokenizer.m_position + 1]_vars
  /\ [](pc # "tokenize" => tokenizer.m_position >= Len(tokenizer.m_source))

(* The token kinds of "=", "!", "<" and ">" followed by "=", and alone.     *)
TwoCharacterKind ==
  [c \in {"=", "!", "<", ">"} |->
     CASE c = "=" -> "Equal" [] c = "!" -> "NotEqual" [] c = "<" -> "LessEqual"
       [] c = ">" -> "GreaterEqual"]

LoneKind ==
  [c \in {"=", "!", "<", ">"} |->
     CASE c = "=" -> "Assign" [] c = "!" -> "Unknown" [] c = "<" -> "Less"
       [] c = ">" -> "Greater"]

(* C14: at "=", "!", "<" or ">" tokenize() pushes one token: followed by   *)
(* "=" it is Equal, NotEqual, LessEqual or GreaterEqual, its text is both  *)
(* characters and both are consumed; otherwise it is Assign, Unknown, Less *)
(* or Greater, its text is the character and one character is consumed,    *)
(* also when the character is the last of the text.                        *)
C14_TwoCharacterOperators ==
  [][pc = "tokenize" /\ tokenizer.m_position < Len(tokenizer.m_source)
       /\ CharAt(tokenizer.m_position) \in {"=", "!", "<", ">"} =>
         LET c == CharAt(tokenizer.m_position)
             two == /\ tokenizer.m_position + 1 < Len(tokenizer.m_source)
                    /\ CharAt(tokenizer.m_position + 1) = "="
         IN  /\ pc' = "tokenize"
             /\ Len(tokens') = Len(tokens) + 1
             /\ Last(tokens').type = IF two THEN TwoCharacterKind[c] ELSE LoneKind[c]
             /\ Last(tokens').value = IF two THEN <<c, "=">> ELSE <<c>>
             /\ tokenizer'.m_position = tokenizer.m_position + (IF two THEN 2 ELSE 1)]_vars

(* tokenize() has returned the tokens of "a != b !": a NotEqual of two     *)
(* characters and a lone "!" that is the last character of the text.       *)
C14_Witness ==
  /\ pc # "tokenize"
  /\ tokenizer.m_source = <<"a", " ", "!", "=", " ", "b", " ", "!">>
  /\ KindsTexts(tokens) = << <<"Identifier", <<"a">> >>, <<"NotEqual", <<"!", "=">> >>,
                             <<"Identifier", <<"b">> >>, <<"Unknown", <<"!">> >>,
                             <<"EndOfFile", <<>> >> >>
  /\ starts[4] = Len(tokenizer.m_source) - 1

----------------------------------------------------------------------------
(* Number literals                                                         *)

Dots(text) == {i \in 1..Len(text) : text[i] = "."}

(* C15: the text of a Number token is the characters read and has at most  *)
(* one "."; when a second "." follows the number it is not consumed and    *)
(* the next token is the Dot token of that character; "1.2.3" yields       *)
(* Number "1.2", Dot, Number "3", end-of-input.                            *)
C15_SecondDotEndsNumber ==
  /\ \A i \in 1..Len(tokens) :
       tokens[i].type = "Number" =>
         LET end == starts[i] + Len(tokens[i].value)
         IN  /\ tokens[i].value = SubSeq(tokenizer.m_source, starts[i] + 1, end)
             /\ Cardinality(Dots(tokens[i].value)) <= 1
             /\ Dots(tokens[i].value) # {} /\ end < Len(tokenizer.m_source)
                  /\ CharAt(end) = "." =>
                  /\ pc # "tokenize" => i < Len(tokens)
                  /\ i < Len(tokens) =>
                       /\ tokens[i + 1].type = "Dot"
                       /\ starts[i + 1] = end
  /\ pc # "tokenize" /\ tokenizer.m_source = <<"1", ".", "2", ".", "3">> =>
       KindsTexts(tokens) = << <<"Number", <<"1", ".", "2">> >>, <<"Dot", <<".">> >>,
                               <<"Number", <<"3">> >>, <<"EndOfFile", <<>> >> >>

(* tokenize() has returned the four tokens of "1.2.3".                     *)
C15_Witness ==
  /\ pc # "tokenize"
  /\ tokenizer.m_source = <<"1", ".", "2", ".", "3">>
  /\ Len(tokens) = 4
  /\ tokens[2].type = "Dot"
  /\ starts[2] = 3

----------------------------------------------------------------------------
(* Termination of parse()                                                  *)

Count(type) == Cardinality({i \in 1..Len(TokenTypes) : TokenTypes[i] = type})

(* The tokens open more brace-delimited bodies than they close.            *)
Unclosed == Count("LBrace") > Count("RBrace")

(* C16: parse() ends after at most as many statements as there are tokens  *)
(* before the end-of-file token: the token sequence ends with the          *)
(* end-of-file token, every parseStatement() of parse() either fails or    *)
(* returns a statement with the cursor at least one token further, the     *)
(* cursor never passes the end-of-file token, every node of the tree, a    *)
(* nested statement included, has consumed a token; and parse() does not   *)
(* return a Program when a body is left unclosed.                          *)
C16_ParseTerminates ==
  /\ [](Last(TokenTypes) = "EndOfFile")
  /\ [][pc = "parse" =>
          \/ pc' = "failed" /\ program' = program
          \/ pc' = "done" /\ Parser_current(parser).type = "EndOfFile"
          \/ /\ pc' = "parse"
             /\ Len(program') = Len(program) + 1
             /\ parser'.m_position >= parser.m_position + 1]_vars
  /\ [](parser.m_position <= Len(TokenTypes) - 1)
  /\ [](Len(ProgramNodes) <= parser.m_position)
  /\ [](Unclosed => pc # "done")

(* parse() has failed at the end-of-file token inside a body that is       *)
(* still open, after a statement of that body.                             *)
C16_Witness ==
  /\ pc = "failed"
  /\ Unclosed
  /\ Parser_current(parser).type = "EndOfFile"
  /\ error.message = "Unexpected token in expression"
  /\ parser.m_position >= 6

----------------------------------------------------------------------------
(* The cursor after a failure                                              *)

(* The token kinds that satisfy the expectation a failure message names.   *)
Expected(message) ==
  CASE message \in {"Expected variable name", "Expected function name",
                    "Expected parameter name", "Expected member name"} -> {"Identifier"}
    [] message \in {"Expected '('", "Expected '(' after '@'"} -> {"LParen"}
    [] message = "Expected ')'" -> {"RParen"}
    [] message \in {"Expected '{'", "Expected '{"} -> {"LBrace"}
    [] message = "Expected ';'" -> {"Semicolon"}
    [] message = "Expected type" -> {"Entjera", "Reala", "Teksta", "Bulea", "Funkcia"}
    [] message = "Unexpected token in expression" ->
         {"Number", "String", "Vero", "Malvero", "At", "LParen", "Identifier", "Tiu"}

(* C17: after a failure of parse() the cursor is on the token that         *)
(* violated the expectation: getCurrentPosition() is the index of the      *)
(* token the failing rule examined, and getCurrentToken() is a token that  *)
(* does not satisfy the expectation of the message, whether a required     *)
(* token is absent, a token cannot start an expression or a type keyword   *)
(* is not recognized.                                                      *)
C17_CursorOnOffendingToken ==
  pc = "failed" =>
    /\ parser.m_position = OffendingPosition
    /\ Parser_current(parser).type \notin Expected(error.message)

====
